---- MODULE Spec2Model ----
(***************************************************************************)
(* A model of github_org_puller.py: GitHubOrgPuller.pull_all_repos with    *)
(* the methods it calls (check_ssh_agent, get_all_repos, clone_repo).      *)
(*                                                                         *)
(* The program is one sequential thread.  Its environment (the SSH agent   *)
(* probe, the operator's answer at the prompt, the hosting API, the git    *)
(* child process and what it leaves on disk) is nondeterministic: every    *)
(* action draws the environment's reply from a small set.                  *)
(*                                                                         *)
(* Strings the program transforms (the prompt answer) are sequences of     *)
(* one-character strings, so that strip() and lower() are computed.        *)
(***************************************************************************)
EXTENDS Integers, Sequences, FiniteSets, TLC

VARIABLES
    pc,                \* where pull_all_repos is
    run,               \* 1: first invocation, 2: the rerun
    use_ssh, include_forks, include_archived,   \* arguments of pull_all_repos
    fs,                \* the target directory: name -> absent | partial | complete
    subprocess_calls,  \* the subprocess.run calls made, in order
    ssh_agent,         \* "unchecked", or what check_ssh_agent returned
    prompted, answer,  \* whether input() was called, and the raw line typed
    page, repos,       \* get_all_repos: locals
    requests,          \* the page numbers passed to session.get, in order
    responses,         \* the responses received, in order
    raised,            \* the exception propagating to pull_all_repos' handler
    err_printed,       \* the exception printed by that handler
    filtered_repos, i, successful, failed,      \* pull_all_repos: locals
    outcomes,          \* per clone_repo call: the repository and the outcome
    last_result,       \* what the latest clone_repo call's subprocess.run did
    msg,               \* the line the latest clone_repo call printed
    summary,           \* the SUMMARY block, once printed
    exit_status,       \* <<>> while running, then <<the process exit status>>
    first              \* what the first invocation did, kept for the rerun

vars == <<pc, run, use_ssh, include_forks, include_archived, fs,
          subprocess_calls, ssh_agent, prompted, answer, page, repos,
          requests, responses, raised, err_printed, filtered_repos, i,
          successful, failed, outcomes, last_result, msg, summary,
          exit_status, first>>

(***************************************************************************)
(* Bounds of the model and constants of the program.                       *)
(***************************************************************************)
per_page == 100

MaxLen == 2

MaxPages == 3

(***************************************************************************)
(* Repository descriptors: the fields of the API's JSON objects the code   *)
(* reads.  clone_url and ssh_url are told apart by their scheme.           *)
(***************************************************************************)
Names == {"repo1", "repo2", "repo3"}

Repo(n, f, a) ==
    [name |-> n, fork |-> f, archived |-> a,
     clone_url |-> <<"https", n>>, ssh_url |-> <<"ssh", n>>]

\* The descriptors of test_pull_all_repos_filters.
Descs == {Repo("repo1", FALSE, FALSE), Repo("repo2", TRUE, FALSE),
          Repo("repo3", FALSE, TRUE)}

ShortPages == UNION {[1..n -> Descs] : n \in 0..MaxLen}

\* A page of per_page entries, and one of per_page - 1.
FullPage ==
    [j \in 1..per_page |->
        IF j % 2 = 1 THEN Repo("repo1", TRUE, TRUE) ELSE Repo("repo3", FALSE, TRUE)]

AlmostFull == [j \in 1..(per_page - 1) |-> Repo("repo2", TRUE, FALSE)]

\* The listing of test_pull_all_repos_filters.
TestPage ==
    <<Repo("repo1", FALSE, FALSE), Repo("repo2", TRUE, FALSE),
      Repo("repo3", FALSE, TRUE)>>

\* A repository that is both a fork and archived, before a plain one.
BothFlagsPage == <<Repo("repo2", TRUE, TRUE), Repo("repo1", FALSE, FALSE)>>

Pages == ShortPages \cup {FullPage, AlmostFull, TestPage, BothFlagsPage}

Statuses == {200, 204, 403, 404, 500}

Texts == {"", "body"}

Response(s, j, t) == [status_code |-> s, json |-> j, text |-> t]

\* What the API may answer to one request.
AllResponses ==
    {Response(200, p, "") : p \in Pages}
        \cup {Response(s, <<>>, t) : s \in Statuses \ {200}, t \in Texts}

\* The rerun is served what the first run was served.
ServerResponses(p) ==
    IF run = 1 THEN AllResponses
    ELSE IF p <= Len(first.responses) THEN {first.responses[p]} ELSE {}

(***************************************************************************)
(* check_ssh_agent                                                         *)
(***************************************************************************)
\* What subprocess.run(['ssh-add', '-l']) may do.
ProbeResults == {"rc0", "rc_nonzero", "FileNotFoundError", "Exception"}

\* True on exit code 0 only; the exceptions are caught and give False.
check_ssh_agent(r) == r = "rc0"

(***************************************************************************)
(* response = input("Continue anyway? (y/n): ").strip().lower()            *)
(***************************************************************************)
Answers == {<<"y">>, <<" ", "Y">>, <<"n">>, <<"N", " ">>, <<>>, <<"y", "e", "s">>}

IsSpace(c) == c \in {" ", "\t", "\n"}

RECURSIVE LStrip(_)
LStrip(s) ==
    IF s # <<>> /\ IsSpace(Head(s)) THEN LStrip(Tail(s)) ELSE s

RECURSIVE RStrip(_)
RStrip(s) ==
    IF s # <<>> /\ IsSpace(s[Len(s)]) THEN RStrip(SubSeq(s, 1, Len(s) - 1)) ELSE s

Strip(s) == RStrip(LStrip(s))

LowerChar(c) ==
    CASE c = "Y" -> "y"
      [] c = "N" -> "n"
      [] c = "E" -> "e"
      [] c = "S" -> "s"
      [] OTHER -> c

Lower(s) == [k \in 1..Len(s) |-> LowerChar(s[k])]

DeclinesOnlyOnN(a) == Lower(Strip(a)) = <<"n">>

\* if response != 'y': return
Declines(a) == Lower(Strip(a)) # <<"y">>

(***************************************************************************)
(* get_all_repos                                                           *)
(***************************************************************************)
NoError == [kind |-> "none", status_code |-> 0, text |-> ""]

AcceptsAny2xx(r) ==
    CASE r.status_code = 404 ->
            [kind |-> "NotFound", status_code |-> 404, text |-> ""]
      [] r.status_code = 403 ->
            [kind |-> "RateLimited", status_code |-> 403, text |-> ""]
      [] r.status_code \notin 200..299 ->
            [kind |-> "ApiError", status_code |-> r.status_code, text |-> r.text]
      [] OTHER -> NoError

\* The ValueError a response raises, NoError when it is accepted.
StatusError(r) ==
    CASE r.status_code = 404 ->
            [kind |-> "NotFound", status_code |-> 404, text |-> ""]
      [] r.status_code = 403 ->
            [kind |-> "RateLimited", status_code |-> 403, text |-> ""]
      [] r.status_code # 200 ->
            [kind |-> "ApiError", status_code |-> r.status_code, text |-> r.text]
      [] OTHER -> NoError

LastPageOffByOne(page_repos) == Len(page_repos) <= per_page

\* if len(page_repos) < per_page: break
LastPage(page_repos) == Len(page_repos) < per_page

(***************************************************************************)
(* The filter loop of pull_all_repos                                       *)
(***************************************************************************)
SkipsEither(repo, inc_forks, inc_archived) ==
    (~inc_forks /\ ~inc_archived) /\ (repo.fork \/ repo.archived)

\* The two `continue` tests.
Skips(repo, inc_forks, inc_archived) ==
    IF ~inc_forks /\ repo.fork THEN TRUE
    ELSE IF ~inc_archived /\ repo.archived THEN TRUE
    ELSE FALSE

\* for repo in repos: ... filtered_repos.append(repo)
FilterLoop(rs, inc_forks, inc_archived) ==
    SelectSeq(rs, LAMBDA repo : ~Skips(repo, inc_forks, inc_archived))

(***************************************************************************)
(* clone_repo                                                              *)
(***************************************************************************)
NoResult == [kind |-> "none", returncode |-> 0, stderr |-> "", leaves |-> "absent"]

\* What subprocess.run(['git', 'clone', ...], timeout=300) may do, with what
\* the child leaves at the destination path.  A clone that exits 0 is
\* complete.  A child that exits nonzero, or is killed at the timeout, has
\* either removed what it created or left a partial tree behind.
GitResults ==
    {[kind |-> "exit", returncode |-> 0, stderr |-> "", leaves |-> "complete"]}
        \cup {[kind |-> "exit", returncode |-> 1, stderr |-> e, leaves |-> l] :
                e \in {"Permission denied", "fatal"}, l \in {"absent", "partial"}}
        \cup {[kind |-> "TimeoutExpired", returncode |-> 0, stderr |-> "", leaves |-> l] :
                l \in {"absent", "partial"}}
        \cup {[kind |-> "FileNotFoundError", returncode |-> 0, stderr |-> "",
               leaves |-> "absent"],
              [kind |-> "Exception", returncode |-> 0, stderr |-> "",
               leaves |-> "absent"]}

ExistsOnlyComplete(f, n) == f[n] = "complete"

\* os.path.exists(repo_path)
PathExists(f, n) == f[n] # "absent"

UncaughtMissingClient(res) ==
    CASE res.kind = "exit" /\ res.returncode = 0 -> "Success"
      [] res.kind = "FileNotFoundError" -> "Raised"
      [] OTHER -> "Failed"

UncaughtTimeout(res) ==
    CASE res.kind = "exit" /\ res.returncode = 0 -> "Success"
      [] res.kind = "TimeoutExpired" -> "Raised"
      [] OTHER -> "Failed"

\* The try block: Success on exit code 0, Failed on a nonzero exit and on
\* every exception (TimeoutExpired, FileNotFoundError, Exception).
CloneOutcome(res) ==
    CASE res.kind = "exit" /\ res.returncode = 0 -> "Success"
      [] res.kind = "exit" -> "Failed"
      [] res.kind = "TimeoutExpired" -> "Failed"
      [] res.kind = "FileNotFoundError" -> "Failed"
      [] OTHER -> "Failed"

\* The line clone_repo prints for a subprocess result.
CloneMessage(res, ssh) ==
    CASE res.kind = "exit" /\ res.returncode = 0 -> "Successfully cloned"
      [] res.kind = "exit" /\ res.stderr = "Permission denied" /\ ssh ->
            "SSH authentication failed"
      [] res.kind = "exit" -> "Failed to clone"
      [] res.kind = "TimeoutExpired" -> "Timeout while cloning"
      [] res.kind = "FileNotFoundError" -> "Git is not installed"
      [] OTHER -> "Error cloning"

OnlyFreshClones(o) == o = "Success"

\* clone_repo's return value: True for a clone and for a skip.
ReturnsTrue(o) == o \in {"Success", "AlreadyExists"}

GitCall(repo, ssh) ==
    [argv |-> <<"git", "clone", IF ssh THEN repo.ssh_url ELSE repo.clone_url,
                repo.name>>,
     batch_ssh |-> ssh]

SshAddCall == [argv |-> <<"ssh-add", "-l">>, batch_ssh |-> FALSE]

NoFirst == [responses |-> <<>>, outcomes |-> <<>>, filtered_repos |-> <<>>]

(***************************************************************************)
(* Init: the arguments and the directory the program is started with.      *)
(***************************************************************************)
Init ==
    /\ pc = "start"
    /\ run = 1
    /\ use_ssh \in BOOLEAN
    /\ include_forks \in BOOLEAN
    /\ include_archived \in BOOLEAN
    /\ fs \in [Names -> {"absent", "complete"}]
    /\ subprocess_calls = <<>>
    /\ ssh_agent = "unchecked"
    /\ prompted = FALSE
    /\ answer = <<>>
    /\ page = 1
    /\ repos = <<>>
    /\ requests = <<>>
    /\ responses = <<>>
    /\ raised = NoError
    /\ err_printed = NoError
    /\ filtered_repos = <<>>
    /\ i = 0
    /\ successful = 0
    /\ failed = 0
    /\ outcomes = <<>>
    /\ last_result = NoResult
    /\ msg = ""
    /\ summary = <<>>
    /\ exit_status = <<>>
    /\ first = NoFirst

(***************************************************************************)
(* pull_all_repos, one action per step between two blocking calls.         *)
(***************************************************************************)

\* Lines 177-186: target_dir is resolved and created (os.makedirs with
\* exist_ok, which leaves the entries under it alone), then the SSH branch.
Start ==
    /\ pc = "start"
    /\ pc' = IF use_ssh THEN "check_ssh" ELSE "get_all_repos"
    /\ UNCHANGED <<run, use_ssh, include_forks, include_archived, fs,
                   subprocess_calls, ssh_agent, prompted, answer, page, repos,
                   requests, responses, raised, err_printed, filtered_repos, i,
                   successful, failed, outcomes, last_result, msg, summary,
                   exit_status, first>>

\* Line 187: check_ssh_agent() runs ssh-add -l; a False return leads to the
\* prompt, a True return to the listing.
CheckSshAgent ==
    /\ pc = "check_ssh"
    /\ \E r \in ProbeResults :
        /\ ssh_agent' = IF check_ssh_agent(r) THEN "usable" ELSE "unusable"
        /\ subprocess_calls' = Append(subprocess_calls, SshAddCall)
        /\ pc' = IF check_ssh_agent(r) THEN "get_all_repos" ELSE "input"
    /\ UNCHANGED <<run, use_ssh, include_forks, include_archived, fs,
                   prompted, answer, page, repos,
                   requests, responses, raised, err_printed, filtered_repos, i,
                   successful, failed, outcomes, last_result, msg, summary,
                   exit_status, first>>

\* Lines 188-191: the prompt; declining returns from pull_all_repos, and the
\* process ends normally.
Prompt ==
    /\ pc = "input"
    /\ \E a \in Answers :
        /\ prompted' = TRUE
        /\ answer' = a
        /\ IF Declines(a)
              THEN pc' = "done" /\ exit_status' = <<0>>
              ELSE pc' = "get_all_repos" /\ UNCHANGED exit_status
    /\ UNCHANGED <<run, use_ssh, include_forks, include_archived, fs,
                   subprocess_calls, ssh_agent, page, repos,
                   requests, responses, raised, err_printed, filtered_repos, i,
                   successful, failed, outcomes, last_result, msg, summary,
                   first>>

\* Lines 62-64 and one turn of the while loop of get_all_repos (68-103): the
\* request, the status tests, the accumulation and the two break tests.
RequestPage ==
    /\ pc = "get_all_repos"
    /\ page <= MaxPages
    /\ \E response \in ServerResponses(page) :
        /\ requests' = Append(requests, page)
        /\ responses' = Append(responses, response)
        /\ IF StatusError(response) # NoError
              THEN /\ raised' = StatusError(response)
                   /\ pc' = "except"
                   /\ UNCHANGED <<page, repos>>
              ELSE LET page_repos == response.json IN
                   /\ UNCHANGED raised
                   /\ IF page_repos = <<>>
                         THEN pc' = "filter" /\ UNCHANGED <<page, repos>>
                         ELSE /\ repos' = repos \o page_repos
                              /\ IF LastPage(page_repos)
                                    THEN pc' = "filter" /\ UNCHANGED page
                                    ELSE pc' = "get_all_repos" /\ page' = page + 1
    /\ UNCHANGED <<run, use_ssh, include_forks, include_archived, fs,
                   subprocess_calls, ssh_agent, prompted, answer,
                   err_printed, filtered_repos, i,
                   successful, failed, outcomes, last_result, msg, summary,
                   exit_status, first>>

\* Lines 197-212: the filter loop, then the counters are set to zero.
FilterRepos ==
    /\ pc = "filter"
    /\ filtered_repos' = FilterLoop(repos, include_forks, include_archived)
    /\ successful' = 0
    /\ failed' = 0
    /\ i' = 0
    /\ pc' = "clone"
    /\ UNCHANGED <<run, use_ssh, include_forks, include_archived, fs,
                   subprocess_calls, ssh_agent, prompted, answer, page, repos,
                   requests, responses, raised, err_printed,
                   outcomes, last_result, msg, summary,
                   exit_status, first>>

\* Lines 214-219 with clone_repo (119-164): one turn of the for loop.  The
\* model follows filtered lists of at most MaxLen repositories.
CloneRepo ==
    /\ pc = "clone"
    /\ i < Len(filtered_repos)
    /\ Len(filtered_repos) <= MaxLen
    /\ LET repo == filtered_repos[i + 1] IN
       IF PathExists(fs, repo.name)
          THEN /\ msg' = "already exists, skipping"
               /\ last_result' = NoResult
               /\ outcomes' = Append(outcomes,
                                [name |-> repo.name, outcome |-> "AlreadyExists"])
               /\ IF ReturnsTrue("AlreadyExists")
                     THEN successful' = successful + 1 /\ UNCHANGED failed
                     ELSE failed' = failed + 1 /\ UNCHANGED successful
               /\ i' = i + 1
               /\ UNCHANGED <<pc, fs, subprocess_calls, raised>>
          ELSE \E res \in GitResults :
               /\ subprocess_calls' = Append(subprocess_calls, GitCall(repo, use_ssh))
               /\ fs' = [fs EXCEPT ![repo.name] = res.leaves]
               /\ last_result' = res
               /\ IF CloneOutcome(res) = "Raised"
                     THEN /\ raised' = [kind |-> res.kind, status_code |-> 0,
                                        text |-> ""]
                          /\ pc' = "except"
                          /\ UNCHANGED <<msg, outcomes, successful, failed, i>>
                     ELSE /\ msg' = CloneMessage(res, use_ssh)
                          /\ outcomes' = Append(outcomes,
                                [name |-> repo.name, outcome |-> CloneOutcome(res)])
                          /\ IF ReturnsTrue(CloneOutcome(res))
                                THEN successful' = successful + 1 /\ UNCHANGED failed
                                ELSE failed' = failed + 1 /\ UNCHANGED successful
                          /\ i' = i + 1
                          /\ UNCHANGED <<pc, raised>>
    /\ UNCHANGED <<run, use_ssh, include_forks, include_archived,
                   ssh_agent, prompted, answer, page, repos,
                   requests, responses, err_printed, filtered_repos,
                   summary, exit_status, first>>

\* Lines 221-232: the summary; pull_all_repos returns and the process ends.
Summary ==
    /\ pc = "clone"
    /\ i = Len(filtered_repos)
    /\ summary' = <<[total |-> Len(filtered_repos), successful |-> successful,
                     failed |-> failed]>>
    /\ exit_status' = <<0>>
    /\ pc' = "done"
    /\ UNCHANGED <<run, use_ssh, include_forks, include_archived, fs,
                   subprocess_calls, ssh_agent, prompted, answer, page, repos,
                   requests, responses, raised, err_printed, filtered_repos, i,
                   successful, failed, outcomes, last_result, msg, first>>

ExceptWithoutExit ==
    /\ pc = "except"
    /\ err_printed' = raised
    /\ exit_status' = <<0>>
    /\ pc' = "done"
    /\ UNCHANGED <<run, use_ssh, include_forks, include_archived, fs,
                   subprocess_calls, ssh_agent, prompted, answer, page, repos,
                   requests, responses, raised, filtered_repos, i,
                   successful, failed, outcomes, last_result, msg, summary,
                   first>>

\* Lines 234-236: except Exception: print the error, sys.exit(1).
ExceptHandler ==
    /\ pc = "except"
    /\ err_printed' = raised
    /\ exit_status' = <<1>>
    /\ pc' = "done"
    /\ UNCHANGED <<run, use_ssh, include_forks, include_archived, fs,
                   subprocess_calls, ssh_agent, prompted, answer, page, repos,
                   requests, responses, raised, filtered_repos, i,
                   successful, failed, outcomes, last_result, msg, summary,
                   first>>

\* The program is started again with the same arguments and target
\* directory; nothing but the directory survives the first process.
Rerun ==
    /\ pc = "done"
    /\ run = 1
    /\ run' = 2
    /\ first' = [responses |-> responses, outcomes |-> outcomes,
                 filtered_repos |-> filtered_repos]
    /\ pc' = "start"
    /\ subprocess_calls' = <<>>
    /\ ssh_agent' = "unchecked"
    /\ prompted' = FALSE
    /\ answer' = <<>>
    /\ page' = 1
    /\ repos' = <<>>
    /\ requests' = <<>>
    /\ responses' = <<>>
    /\ raised' = NoError
    /\ err_printed' = NoError
    /\ filtered_repos' = <<>>
    /\ i' = 0
    /\ successful' = 0
    /\ failed' = 0
    /\ outcomes' = <<>>
    /\ last_result' = NoResult
    /\ msg' = ""
    /\ summary' = <<>>
    /\ exit_status' = <<>>
    /\ UNCHANGED <<use_ssh, include_forks, include_archived, fs>>

Next ==
    \/ Start
    \/ CheckSshAgent
    \/ Prompt
    \/ RequestPage
    \/ FilterRepos
    \/ CloneRepo
    \/ Summary
    \/ ExceptHandler

Spec == Init /\ [][Next]_vars

NextRerun == Next \/ Rerun

SpecRerun == Init /\ [][NextRerun]_vars

(***************************************************************************)
(* Properties.                                                             *)
(***************************************************************************)

IsGitCall(c) == c.argv[1] = "git"

GitCalls == {k \in 1..Len(subprocess_calls) : IsGitCall(subprocess_calls[k])}

SshAddCalls == {k \in 1..Len(subprocess_calls) : subprocess_calls[k].argv[1] = "ssh-add"}

\* Every response received had status 200.
AllPagesServed == \A k \in 1..Len(responses) : responses[k].status_code = 200

\* The listing returned: the last page received was a short or empty 200 page.
ListingReturned ==
    /\ responses # <<>>
    /\ AllPagesServed
    /\ Len(responses[Len(responses)].json) < per_page

\* The number of entries on the pages before page k.
RECURSIVE Offset(_)
Offset(k) == IF k <= 1 THEN 0 ELSE Offset(k - 1) + Len(responses[k - 1].json)

CountOutcomes(S) == Cardinality({k \in 1..Len(outcomes) : outcomes[k].outcome \in S})

\* C1: while only 200 pages are served, the pages requested are 1, 2, 3, ...
\* without gap or repeat, the list accumulated, and then returned, by
\* get_all_repos is the concatenation of the pages received (its length the
\* sum of their lengths), every page before the last received has per_page
\* entries or more, and the listing has returned exactly when the last page
\* received has fewer than per_page entries (an empty page included).
C1_PaginationStopsAtFirstShortPage ==
    /\ Len(responses) = Len(requests)
    /\ \A k \in 1..Len(requests) : requests[k] = k
    /\ AllPagesServed =>
        /\ Len(repos) = Offset(Len(responses) + 1)
        /\ pc \in {"get_all_repos", "filter"} =>
              \A k \in 1..Len(responses) :
                  \A j \in 1..Len(responses[k].json) :
                      repos[Offset(k) + j] = responses[k].json[j]
        /\ \A k \in 1..(Len(responses) - 1) : Len(responses[k].json) >= per_page
        /\ responses # <<>> =>
              (pc = "get_all_repos" <=> Len(responses[Len(responses)].json) >= per_page)
        /\ pc = "get_all_repos" => page = Len(requests) + 1

\* Pages of 100, 100 and 2 entries: 202 entries in 3 requests.
C1_Witness ==
    /\ pc = "filter"
    /\ requests = <<1, 2, 3>>
    /\ Len(responses[1].json) = per_page
    /\ Len(responses[2].json) = per_page
    /\ Len(responses[3].json) = 2
    /\ Len(repos) = 2 * per_page + 2

\* C2: when the filter has run, filtered_repos holds exactly the descriptors
\* of repos that are not (a fork while include_forks is false) and not
\* (archived while include_archived is false), each once, unaltered and in
\* the order of repos; with both flags true it is repos.
C2_FilterIsOrderPreservingSubset ==
    (pc = "clone" /\ i = 0) =>
        LET kept == {k \in 1..Len(repos) :
                        ~ \/ (~include_forks /\ repos[k].fork)
                          \/ (~include_archived /\ repos[k].archived)}
            rank(k) == Cardinality({m \in kept : m <= k})
        IN  /\ Len(filtered_repos) = Cardinality(kept)
            /\ \A k \in kept : filtered_repos[rank(k)] = repos[k]
            /\ (include_forks /\ include_archived) => filtered_repos = repos

\* The listing of the test with both exclusions on: only repo1 is kept.
C2_Witness ==
    /\ pc = "clone"
    /\ i = 0
    /\ repos = TestPage
    /\ ~include_forks
    /\ ~include_archived
    /\ filtered_repos = <<Repo("repo1", FALSE, FALSE)>>

\* C3: when a page of the listing was answered with a status other than
\* 200, no clone_repo call and no git call is made, no summary is printed,
\* and the process ends with status 1 after the error is printed.
C3_ListingFailureAborts ==
    (responses # <<>> /\ ~AllPagesServed) =>
        /\ outcomes = <<>>
        /\ GitCalls = {}
        /\ i = 0
        /\ summary = <<>>
        /\ pc \in {"except", "done"}
        /\ raised # NoError
        /\ pc = "done" => (exit_status = <<1>> /\ err_printed = raised)

\* A rate-limit answer on page 2, after page 1 was accumulated.
C3_Witness ==
    /\ pc = "done"
    /\ Len(responses) = 2
    /\ responses[2].status_code = 403
    /\ Len(repos) = per_page
    /\ exit_status = <<1>>

\* C4: a turn of the clone loop on a repository whose destination path
\* exists appends the outcome AlreadyExists, counts it as a success, makes
\* no subprocess call and leaves the directory as it was.
C4_ExistingPathSkipsClient ==
    [][ (/\ pc = "clone"
         /\ i < Len(filtered_repos)
         /\ fs[filtered_repos[i + 1].name] # "absent")
        => /\ fs' = fs
           /\ subprocess_calls' = subprocess_calls
           /\ outcomes' = Append(outcomes, [name |-> filtered_repos[i + 1].name,
                                            outcome |-> "AlreadyExists"])
           /\ successful' = successful + 1
           /\ failed' = failed
           /\ i' = i + 1 ]_vars

\* In SSH mode: two existing repositories skipped, no git call made.
C4_Witness ==
    /\ use_ssh
    /\ Len(outcomes) = 2
    /\ \A k \in 1..2 : outcomes[k].outcome = "AlreadyExists"
    /\ GitCalls = {}
    /\ successful = 2

\* C5: the clone_repo calls made so far are the first i repositories of the
\* filtered list, one call each and in its order; each call is a skip or one
\* git call; the loop can always take its next turn; and a run whose listing
\* returned ends only after every repository was attempted.
C5_EveryRepositoryAttemptedOnce ==
    /\ Len(outcomes) = i
    /\ i <= Len(filtered_repos)
    /\ \A k \in 1..i : outcomes[k].name = filtered_repos[k].name
    /\ Cardinality(GitCalls) = CountOutcomes({"Success", "Failed"})
    /\ (pc = "clone" /\ i < Len(filtered_repos) /\ Len(filtered_repos) <= MaxLen)
          => ENABLED CloneRepo
    /\ ListingReturned =>
          /\ pc # "except"
          /\ pc = "done" => i = Len(filtered_repos)

\* A failed first clone followed by a second attempt, run completed.
C5_Witness ==
    /\ pc = "done"
    /\ Len(outcomes) = 2
    /\ outcomes[1].outcome = "Failed"
    /\ outcomes[2].outcome = "Success"

\* C6: successful + failed is the number of repositories processed so far,
\* successful counts the outcomes Success and AlreadyExists and failed the
\* outcomes Failed; a run whose listing returned prints a summary before it
\* ends, whose total is the length of the filtered list and the sum of its
\* successful and failed counts.
C6_SummaryTallies ==
    /\ successful + failed = i
    /\ successful = CountOutcomes({"Success", "AlreadyExists"})
    /\ failed = CountOutcomes({"Failed"})
    /\ summary # <<>> =>
          /\ summary[1].total = Len(filtered_repos)
          /\ summary[1].successful = successful
          /\ summary[1].failed = failed
          /\ summary[1].successful + summary[1].failed = summary[1].total
          /\ Len(outcomes) = summary[1].total
    /\ (pc = "clone" /\ i = Len(filtered_repos)) => ENABLED Summary
    /\ (ListingReturned /\ pc = "done") => summary # <<>>

\* Three repositories, one a fork and one archived, both exclusions on.
C6_Witness ==
    /\ repos = TestPage
    /\ ~include_forks
    /\ ~include_archived
    /\ summary = <<[total |-> 1, successful |-> 1, failed |-> 0]>>

\* C7: a git call that exits nonzero, times out or cannot be spawned gives
\* the outcome Failed for that repository and raises nothing, and a run
\* whose listing returned ends with exit status 0.
C7_CloneFailureIsNotFatal ==
    /\ (last_result.kind \in {"TimeoutExpired", "FileNotFoundError", "Exception"}
            \/ (last_result.kind = "exit" /\ last_result.returncode # 0))
          => /\ raised = NoError
             /\ pc # "except"
             /\ outcomes # <<>>
             /\ outcomes[Len(outcomes)].outcome = "Failed"
    /\ (ListingReturned /\ pc = "done") => exit_status = <<0>>

\* Every repository failed, the last because git is missing; exit status 0.
C7_Witness ==
    /\ pc = "done"
    /\ Len(outcomes) = 2
    /\ failed = 2
    /\ last_result.kind = "FileNotFoundError"
    /\ exit_status = <<0>>

\* Whether the line typed is a single y or Y between blanks.
TypedYes(a) ==
    \E k \in 1..Len(a) :
        /\ a[k] \in {"y", "Y"}
        /\ \A m \in 1..Len(a) : m # k => a[m] \in {" ", "\t", "\n"}

ProbeBeforeListing ==
    /\ ~use_ssh => (ssh_agent = "unchecked" /\ ~prompted /\ SshAddCalls = {})
    /\ prompted => ssh_agent = "unusable"
    /\ Cardinality(SshAddCalls) <= 1
    /\ (use_ssh /\ requests # <<>>) =>
          /\ ssh_agent # "unchecked"
          /\ SshAddCalls = {1}
          /\ ssh_agent = "unusable" => prompted

\* C8 as stated: in SSH mode, after an unusable-agent probe, any answer
\* other than 'y' ends the run with no listing request and no clone attempt;
\* the probe and the prompt happen only with use_ssh, before the listing.
C8_AnyAnswerButYAborts ==
    /\ ProbeBeforeListing
    /\ (prompted /\ answer # <<"y">>) =>
          /\ pc = "done"
          /\ requests = <<>>
          /\ outcomes = <<>>
          /\ GitCalls = {}

\* C8, amended: the answer is compared after strip() and lower(): the run
\* is aborted, with no listing request and no clone attempt, by every answer
\* that is not a single y or Y between blanks.
C8_DeclineAborts ==
    /\ ProbeBeforeListing
    /\ (prompted /\ ~TypedYes(answer)) =>
          /\ pc = "done"
          /\ exit_status = <<0>>
          /\ requests = <<>>
          /\ outcomes = <<>>
          /\ GitCalls = {}
          /\ summary = <<>>

\* The answer "yes" declines.
C8_Witness ==
    /\ use_ssh
    /\ ssh_agent = "unusable"
    /\ prompted
    /\ answer = <<"y", "e", "s">>
    /\ pc = "done"
    /\ requests = <<>>

Classified(r, accepted) ==
    IF r.status_code = 404
        THEN raised = [kind |-> "NotFound", status_code |-> 404, text |-> ""]
    ELSE IF r.status_code = 403
        THEN raised = [kind |-> "RateLimited", status_code |-> 403, text |-> ""]
    ELSE IF r.status_code \in accepted
        THEN raised = NoError
    ELSE raised = [kind |-> "ApiError", status_code |-> r.status_code,
                   text |-> r.text]

\* C9 as stated: 404 fails with NotFound, 403 with RateLimited, any other
\* non-2xx status with ApiError carrying the status and the body text, and a
\* 2xx response is accepted as a page.
C9_Any2xxAccepted ==
    responses # <<>> => Classified(responses[Len(responses)], 200..299)

\* C9, amended: 404 fails with NotFound, 403 with RateLimited, any other
\* status than 200 (the other 2xx included) with ApiError carrying the
\* status and the body text, and only a 200 response is accepted as a page;
\* a response that fails is the last one requested.
C9_Only200Accepted ==
    /\ responses # <<>> => Classified(responses[Len(responses)], {200})
    /\ \A k \in 1..(Len(responses) - 1) : responses[k].status_code = 200
    /\ raised # NoError => pc \in {"except", "done"}

\* A 204 answer is an ApiError.
C9_Witness ==
    /\ responses # <<>>
    /\ responses[Len(responses)].status_code = 204
    /\ raised = [kind |-> "ApiError", status_code |-> 204, text |-> "body"]
    /\ pc = "done"

\* C10: in the rerun git is called only for destinations that do not exist,
\* every repository the first run cloned is skipped as AlreadyExists, a
\* repository counts as a success only if a complete clone of it is on disk,
\* and a repository whose clone failed in the first run is attempted again
\* (its first turn in the rerun is not a skip).
C10_RerunResumes ==
    run = 2 =>
        /\ Cardinality(GitCalls) = CountOutcomes({"Success", "Failed"})
        /\ \A k \in 1..Len(outcomes) :
            /\ (k <= Len(first.outcomes) /\ first.outcomes[k].outcome = "Success")
                  => outcomes[k].outcome = "AlreadyExists"
            /\ outcomes[k].outcome \in {"Success", "AlreadyExists"}
                  => fs[outcomes[k].name] = "complete"
            /\ (/\ \A m \in 1..(k - 1) : outcomes[m].name # outcomes[k].name
                /\ \E m \in 1..Len(first.outcomes) :
                      first.outcomes[m].name = outcomes[k].name
                /\ \A m \in 1..Len(first.outcomes) :
                      first.outcomes[m].name = outcomes[k].name
                          => first.outcomes[m].outcome = "Failed")
                  => outcomes[k].outcome # "AlreadyExists"

====
